---------------------------- MODULE Spec2Model ----------------------------
(***************************************************************************)
(* Model of drivers/ESP32/sdcard.c: running g-code stored on an SD card by *)
(* redirecting hal.stream and the report hooks to a file, and restoring    *)
(* them when the job ends.                                                 *)
(***************************************************************************)
EXTENDS Integers, Sequences, FiniteSets, TLC

\* ------------------------------------------------------------------------
\* Bounds of the model
\* ------------------------------------------------------------------------

\* longest file on the card, in bytes
MaxLen == 3

\* reads are no longer issued once file.line has reached this value
MaxLine == 4

\* longest file name of the enumerated names, in characters
MaxName == 4

\* most entries in a directory of the enumerated cards
MaxEntries == 3

\* deepest nesting of directories below the root on the enumerated cards
MaxNest == 1

\* largest depth budget handed to scan_dir, beside the one of sdcard_ls
MaxDepth == 2

\* ------------------------------------------------------------------------
\* Bytes and files
\* ------------------------------------------------------------------------

CR == 13
LF == 10
EndOfFile == -1

\* the bytes a file is made of: the two terminators and an ordinary letter
Bytes == {LF, CR, 71}

Files == UNION {[1..n -> Bytes] : n \in 0..MaxLen}

\* (signed char) of a byte read from the file
SChar(b) == IF b >= 128 THEN b - 256 ELSE b

\* ------------------------------------------------------------------------
\* File names
\* ------------------------------------------------------------------------

\* real time command characters of the core
CMD_STATUS_REPORT == 63
CMD_CYCLE_START == 126
CMD_FEED_HOLD == 33

\* the characters the enumerated names are made of: n c g N . space ?
NameChars == {110, 99, 103, 78, 46, 32, CMD_STATUS_REPORT}

\* names given in full, as character codes
ExampleNames ==
    {
      <<112, 97, 114, 116, 46, 110, 103, 99>>,                   \* part.ngc
      <<110, 111, 116, 101, 115, 46, 116, 120, 116>>,            \* notes.txt
      <<105, 109, 97, 103, 101, 46, 98, 105, 110>>,              \* image.bin
      <<98, 97, 100, 32, 110, 97, 109, 101, 46, 110, 99>>,       \* bad name.nc
      <<97, 46, 103, 99, 111, 100, 101>>,                        \* a.gcode
      <<97, 46, 116, 101, 120, 116>>,                            \* a.text
      <<65, 46, 84, 65, 80>>,                                    \* A.TAP
      <<97, 46, 78, 99>>,                                        \* a.Nc
      <<97, 46, 103, 99, 111, 100, 101, 115>>,                   \* a.gcodes
      <<97, 46, 98, 46, 110, 99>>,                               \* a.b.nc
      <<97, 46, 110, 99, 46, 98>>,                               \* a.nc.b
      <<82, 69, 65, 68, 77, 69>>,                                \* README
      <<108, 111, 110, 103, 46, 97, 98, 99, 100, 101, 102, 103, 104>>, \* long.abcdefgh
      <<114, 117, 110, 126, 46, 110, 99>>,                       \* run~.nc
      <<115, 116, 111, 112, 33, 46, 110, 99>>,                   \* stop!.nc
      <<115, 117, 98, 32, 100, 105, 114>>,                       \* sub dir
      <<109, 97, 99, 114, 111, 115>> }                           \* macros

Names == UNION {[1..n -> NameChars] : n \in 1..MaxName} \cup ExampleNames

\* char const *const filetypes[], with the empty end marker
filetypes ==
    << <<110, 99>>,                    \* nc
       <<103, 99, 111, 100, 101>>,     \* gcode
       <<116, 120, 116>>,              \* txt
       <<116, 101, 120, 116>>,         \* text
       <<116, 97, 112>>,               \* tap
       <<110, 103, 99>>,               \* ngc
       << >> >>

\* ------------------------------------------------------------------------
\* Directories of the card
\* ------------------------------------------------------------------------

MAX_PATHLEN == 128

\* the depth budget sdcard_ls hands to scan_dir
LsDepth == 10

\* a directory is the sequence of its entries in the order f_readdir returns
\* them; an entry is a FILINFO with, for a directory, its own entries
FileEntry(name) == [fname |-> name, dir |-> FALSE, fsize |-> 12, sub |-> << >>]

DirEntry(name, sub) == [fname |-> name, dir |-> TRUE, fsize |-> 0, sub |-> sub]

\* names of the entries of the enumerated cards: a b f.nc
DirNames == { <<97>>, <<98>> }

FileNames == { <<102, 46, 110, 99>> }

\* the sequences of at most MaxEntries different names
NameSeqs ==
    { ns \in UNION {[1..n -> DirNames \cup FileNames] : n \in 0..MaxEntries} :
        \A i, j \in 1..Len(ns) : ns[i] = ns[j] => i = j }

\* the directories whose subdirectories are taken from subs
Listings(subs) ==
    UNION { LET dirs == {i \in 1..Len(ns) : ns[i] \in DirNames}
            IN  { [i \in 1..Len(ns) |->
                     IF i \in dirs THEN DirEntry(ns[i], ch[i])
                     ELSE FileEntry(ns[i])] : ch \in [dirs -> subs \cup {<< >>}] }
            : ns \in { m \in NameSeqs :
                         subs = {} => \A i \in 1..Len(m) : m[i] \in FileNames } }

RECURSIVE Dirs(_)
Dirs(k) == IF k = 0 THEN Listings({}) ELSE Listings(Dirs(k - 1))

\* cards given in full: a/b/f.nc with f.nc beside a, and a below a below a
ExampleCards ==
    { << DirEntry(<<97>>, << DirEntry(<<98>>, << FileEntry(<<102, 46, 110, 99>>) >>),
                             FileEntry(<<102, 46, 110, 99>>) >>),
         FileEntry(<<102, 46, 110, 99>>) >>,
      << DirEntry(<<97>>, << DirEntry(<<97>>, << DirEntry(<<97>>, << >>),
                                                FileEntry(<<102, 46, 110, 99>>) >>) >>) >> }

\* the name of n characters aaaaaaaa.aaa, cut to its first n characters
ShortName(n) == [i \in 1..n |-> IF i = 9 THEN 46 ELSE 97]

\* the card on which each directory of names holds the next one
RECURSIVE Chain(_)
Chain(names) ==
    IF names = << >> THEN << >>
    ELSE << DirEntry(Head(names), Chain(Tail(names))) >>

\* cards whose paths come near MAX_PATHLEN: ten nested directories with 8.3
\* names, the first nine of 12 characters and the last of 9, 10 or 11, and
\* directories in the root with one long name of 126, 127 or 128 characters
LongPathCards ==
    { Chain([i \in 1..10 |-> IF i < 10 THEN ShortName(12) ELSE ShortName(n)]) :
        n \in 9..11 }
    \cup { << DirEntry([i \in 1..n |-> 97], << >>) >> : n \in 126..128 }

Cards == Dirs(MaxNest) \cup ExampleCards \cup LongPathCards

Depths == 1..MaxDepth \cup {LsDepth}

\* ------------------------------------------------------------------------
\* The collaborators' values
\* ------------------------------------------------------------------------

\* the channel sets the firmware can have installed before a job
ConsoleSets ==
    { [type |-> "StreamSetting_Serial", read |-> "serial_read",
       reset_read_buffer |-> "serial_reset_read_buffer",
       suspend_read |-> "serial_suspend_read", write |-> "serial_write"],
      [type |-> "StreamSetting_Bluetooth", read |-> "bt_read",
       reset_read_buffer |-> "bt_reset_read_buffer",
       suspend_read |-> "bt_suspend_read", write |-> "bt_write"] }

\* static io_stream_t active_stream, zero initialised
NullStream ==
    [type |-> "StreamSetting_Serial", read |-> "NULL",
     reset_read_buffer |-> "NULL", suspend_read |-> "NULL", write |-> "NULL"]

\* the report hooks the firmware can have installed before a job: those of
\* the core, or those of another module that has taken the hooks over
ReportHooks ==
    { [status_message |-> "report_status_message",
       feedback_message |-> "report_feedback_message"],
      [status_message |-> "driver_status_message",
       feedback_message |-> "driver_feedback_message"] }

SysStates == {"STATE_IDLE", "STATE_ALARM", "STATE_CYCLE", "STATE_HOLD"}

StatusCodes == {"Status_OK", "Status_BadNumberFormat", "Status_GcodeUnsupportedCommand"}

MessageCodes == {"Message_ProgramEnd", "Message_CheckLimits"}

\* sys.state == STATE_IDLE || (sys.state & (STATE_CYCLE|STATE_HOLD))
ReadAllowed(state) ==
    state = "STATE_IDLE" \/ state \in {"STATE_CYCLE", "STATE_HOLD"}

\* ------------------------------------------------------------------------
\* State
\* ------------------------------------------------------------------------

VARIABLES
    hal_stream,         \* hal.stream: the installed channel set
    active_stream,      \* the saved channel set
    hal_report,         \* hal.report.status_message / feedback_message
    driver_rt_report,   \* hal.driver_rt_report
    sys,                \* sys.state, sys.block_input_stream
    file,               \* file_t file: handle, size, pos, line, eol
    sdfile,             \* the bytes of the program file on the card
    fs_open,            \* number of handles the storage driver holds open
    out,                \* calls made to the collaborators by the last step
    ret,                \* the character the last step returned, if it was a read
    retval,             \* the status the last step returned, if it was a command
    last,               \* the last step: its operation and argument
    job,                \* history of the current job
    allowed_call,       \* a call of allowed: its arguments and its result
    ls_call             \* a listing of the card: the card, the depth budget,
                        \* the path buffer, the records written, the result

vars == <<hal_stream, active_stream, hal_report, driver_rt_report, sys, file,
          sdfile, fs_open, out, ret, retval, last, job, allowed_call, ls_call>>

\* the variables the steps of a job leave alone
fnVars == <<allowed_call, ls_call>>

\* the variables of a job
jobVars == <<hal_stream, active_stream, hal_report, driver_rt_report, sys,
             file, sdfile, fs_open, out, ret, retval, last, job>>

progVars == <<hal_stream, active_stream, hal_report, driver_rt_report, sys,
              file, sdfile, fs_open>>

\* the program state as one value, as the handlers below transform it
Cur ==
    [stream |-> hal_stream, saved |-> active_stream, report |-> hal_report,
     rt |-> driver_rt_report, sys |-> sys, file |-> file, fil |-> sdfile,
     nopen |-> fs_open, out |-> <<>>, ret |-> 0, retval |-> "",
     opened |-> FALSE]

Apply(s) ==
    /\ hal_stream' = s.stream
    /\ active_stream' = s.saved
    /\ hal_report' = s.report
    /\ driver_rt_report' = s.rt
    /\ sys' = s.sys
    /\ file' = s.file
    /\ sdfile' = s.fil
    /\ fs_open' = s.nopen
    /\ out' = s.out
    /\ ret' = s.ret
    /\ retval' = s.retval

\* one call to a collaborator
Ev(call, fn, text, code, line) ==
    [call |-> call, fn |-> fn, text |-> text, code |-> code, line |-> line]

\* ------------------------------------------------------------------------
\* The functions of sdcard.c
\* ------------------------------------------------------------------------

\* c | 0x20
Or0x20(c) == IF (c \div 32) % 2 = 1 THEN c ELSE c + 32

\* a conversion that folds no character
LCAPS_NoFold(c) == c

LCAPS(c) == IF c >= 65 /\ c <= 90 THEN Or0x20(c) ELSE c

\* strrchr(filename, ch): the index of the last ch of filename, 0 if none
strrchr(filename, ch) ==
    LET hits == {i \in 1..Len(filename) : filename[i] = ch}
    IN  IF hits = {} THEN 0 ELSE CHOOSE i \in hits : \A j \in hits : j <= i

\* strchr(filename, ch) != NULL
strchr(filename, ch) == \E i \in 1..Len(filename) : filename[i] = ch

\* the index of the empty entry that ends filetypes
filetypes_end == CHOOSE i \in 1..Len(filetypes) :
                     filetypes[i] = << >> /\ \A j \in 1..(i-1) : filetypes[j] # << >>

allowed(filename, is_file) ==
    LET dot == strrchr(filename, 46)
        ftptr == SubSeq(filename, dot + 1, Len(filename))
        filetype == [i \in 1..Len(ftptr) |-> LCAPS(ftptr[i])]
        status0 == IF is_file THEN "Filename_Filtered" ELSE "Filename_Valid"
        status1 ==
            IF is_file /\ dot # 0
            THEN IF \E idx \in 1..(filetypes_end - 1) : filetype = filetypes[idx]
                 THEN "Filename_Valid" ELSE status0
            ELSE status0
    IN  IF is_file /\ dot # 0 /\ Len(ftptr) > 8 - 1
        THEN status0
        ELSE IF status1 = "Filename_Valid"
             THEN IF \/ strchr(filename, 32)
                     \/ strchr(filename, CMD_STATUS_REPORT)
                     \/ strchr(filename, CMD_CYCLE_START)
                     \/ strchr(filename, CMD_FEED_HOLD)
                  THEN "Filename_Invalid" ELSE "Filename_Valid"
             ELSE status1

file_close(s) ==
    IF s.file.handle
    THEN [s EXCEPT !.file.handle = FALSE,
                   !.nopen = @ - 1,
                   !.out = Append(@, Ev("f_close", "", "", "", 0))]
    ELSE s

\* an open that reports success whatever f_open returned
file_open_IgnoreResult(s, ok) ==
    LET c == IF s.file.handle THEN file_close(s) ELSE s
    IN  IF ok
        THEN [c EXCEPT !.file = [handle |-> TRUE, size |-> Len(c.fil),
                                 pos |-> 0, line |-> 0, eol |-> 0],
                       !.nopen = @ + 1,
                       !.opened = TRUE]
        ELSE [c EXCEPT !.opened = TRUE]

\* ok: the outcome of f_open
file_open(s, ok) ==
    LET c == IF s.file.handle THEN file_close(s) ELSE s
    IN  IF ok
        THEN [c EXCEPT !.file = [handle |-> TRUE, size |-> Len(c.fil),
                                 pos |-> 0, line |-> 0, eol |-> 0],
                       !.nopen = @ + 1,
                       !.opened = TRUE]
        ELSE [c EXCEPT !.opened = c.file.handle]

\* ok: the outcome of f_read (FALSE is an I/O error)
file_read(s, ok) ==
    LET got == ok /\ s.file.pos < Len(s.fil)
        c   == IF got THEN SChar(s.fil[s.file.pos + 1]) ELSE EndOfFile
    IN  [s EXCEPT !.file.pos = IF got THEN @ + 1 ELSE @,
                  !.file.eol = IF c = CR \/ c = LF THEN (@ + 1) % 256 ELSE 0,
                  !.ret = c]

\* the path buffer is kept as the sequence of the names written to it, each
\* preceded by '/'
strlen_path(path) ==
    IF path = << >> THEN 0
    ELSE LET RECURSIVE sum(_)
             sum(i) == IF i = 0 THEN 0 ELSE sum(i - 1) + 1 + Len(path[i])
         IN  sum(Len(path))

\* f_opendir(&dir, path): the directory of the card that path names
RECURSIVE f_opendir(_, _)
f_opendir(card, path) ==
    IF path = << >> THEN [res |-> "FR_OK", dir |-> card]
    ELSE LET hits == {i \in 1..Len(card) :
                         card[i].dir /\ card[i].fname = Head(path)}
         IN  IF hits = {} THEN [res |-> "FR_NO_PATH", dir |-> << >>]
             ELSE f_opendir(card[CHOOSE i \in hits : TRUE].sub, Tail(path))

\* "[FILE:%s/%s|SIZE:%d%s]": at is the directory the entry was read from
FileRecord(path, fno, status, at) ==
    [path |-> path, fname |-> fno.fname, fsize |-> fno.fsize,
     unusable |-> (status = "Filename_Invalid"), at |-> at]

\* sprintf(&path[strlen(path)], "/%s", name): the write runs past the end of
\* path[MAX_PATHLEN] when the string and its terminator need more bytes
sprintf_path(st, name) ==
    LET p == Append(st.path, name)
    IN  [st EXCEPT !.path = p,
                   !.overrun = @ \/ strlen_path(p) + 1 > MAX_PATHLEN]

\* scan_dir: c is the card, dir the open directory and at its place on the
\* card, i the number of the entry f_readdir returns next, st the path
\* buffer and the records written so far
RECURSIVE scan_dir(_, _, _), scan_entries(_, _, _, _, _, _)
scan_entries(c, dir, at, i, depth, st) ==
    IF i > Len(dir)
    THEN [st EXCEPT !.res = "FR_OK"]
    ELSE LET fno == dir[i]
         IN  IF fno.dir
             THEN IF allowed(fno.fname, FALSE) = "Filename_Valid"
                  THEN IF strlen_path(st.path) + Len(fno.fname) > MAX_PATHLEN - 1
                       THEN [st EXCEPT !.res = "FR_OK"]
                       ELSE LET s1 == sprintf_path(st, fno.fname)
                                d1 == depth - 1
                            IN  IF d1 = 0
                                THEN [s1 EXCEPT !.res = "FR_OK"]
                                ELSE LET r == scan_dir(c, d1, s1)
                                     IN  IF r.res # "FR_OK" THEN r
                                         ELSE scan_entries(c, dir, at, i + 1, d1, r)
                  ELSE scan_entries(c, dir, at, i + 1, depth, st)
             ELSE LET status == allowed(fno.fname, TRUE)
                  IN  IF status # "Filename_Filtered"
                      THEN scan_entries(c, dir, at, i + 1, depth,
                               [st EXCEPT !.out = Append(@,
                                   FileRecord(st.path, fno, status, at))])
                      ELSE scan_entries(c, dir, at, i + 1, depth, st)

scan_dir(c, depth, st) ==
    LET o == f_opendir(c, st.path)
    IN  IF o.res # "FR_OK"
        THEN [st EXCEPT !.res = o.res]
        ELSE scan_entries(c, o.dir, st.path, 1, depth, st)

\* sdcard_ls with the depth budget as an argument
sdcard_ls(c, depth) ==
    LET r == scan_dir(c, depth, [path |-> << >>, out |-> << >>, res |-> "FR_OK",
                                 overrun |-> FALSE])
    IN  [r EXCEPT !.res = IF r.res = "FR_OK" THEN "Status_OK"
                          ELSE "Status_SDFailedOpenDir"]

\* a restore that leaves the suspend function of the job installed
RestoreStream_KeepSuspend(stream, saved) ==
    [saved EXCEPT !.suspend_read = stream.suspend_read]

\* memcpy(&hal.stream, &active_stream, sizeof(io_stream_t))
RestoreStream(stream, saved) == saved

sdcard_end_job(s) ==
    LET c == file_close(s)
        r == RestoreStream(c.stream, c.saved)
    IN  [c EXCEPT !.stream = r,
                  !.out = Append(@, Ev("reset_read_buffer", r.reset_read_buffer, "", "", 0)),
                  !.rt = "NULL",
                  !.report = [status_message |-> "report_status_message",
                              feedback_message |-> "report_feedback_message"],
                  !.sys.block_input_stream = FALSE]

\* a hook that ends the job first and writes the error report afterwards
trap_status_report_WriteLast(s, status_code) ==
    IF status_code # "Status_OK"
    THEN LET c == sdcard_end_job(s)
         IN  [c EXCEPT !.out = Append(@, Ev("write", c.stream.write, "error",
                                            status_code, c.file.line))]
    ELSE s

trap_status_report(s, status_code) ==
    IF status_code # "Status_OK"
    THEN sdcard_end_job(
           [s EXCEPT !.out = Append(@, Ev("write", s.stream.write, "error",
                                          status_code, s.file.line))])
    ELSE s

\* report_feedback_message of the core: writes the message to the stream
report_feedback_message(s, message_code) ==
    [s EXCEPT !.out = Append(@, Ev("write", s.stream.write, "MSG", message_code, 0))]

trap_feedback_message(s, message_code) ==
    LET c == report_feedback_message(s, message_code)
    IN  IF message_code = "Message_ProgramEnd" THEN sdcard_end_job(c) ELSE c

\* a read that does not end the job when it finds the handle closed
sdcard_read_NoEnd(s, ok) ==
    LET s1 == IF s.file.eol = 1 THEN [s EXCEPT !.file.line = @ + 1] ELSE s
    IN  IF s1.file.handle
        THEN LET s2 == IF ReadAllowed(s1.sys.state)
                       THEN file_read(s1, ok)
                       ELSE [s1 EXCEPT !.ret = EndOfFile]
             IN  IF s2.ret = EndOfFile
                 THEN LET s3 == file_close(s2)
                      IN  [s3 EXCEPT !.ret = IF s3.file.eol = 0 THEN LF ELSE EndOfFile]
                 ELSE s2
        ELSE [s1 EXCEPT !.ret = EndOfFile]

sdcard_read(s, ok) ==
    LET s1 == IF s.file.eol = 1 THEN [s EXCEPT !.file.line = @ + 1] ELSE s
    IN  IF s1.file.handle
        THEN LET s2 == IF ReadAllowed(s1.sys.state)
                       THEN file_read(s1, ok)
                       ELSE [s1 EXCEPT !.ret = EndOfFile]
             IN  IF s2.ret = EndOfFile
                 THEN LET s3 == file_close(s2)
                      IN  [s3 EXCEPT !.ret = IF s3.file.eol = 0 THEN LF ELSE EndOfFile]
                 ELSE s2
        ELSE IF s1.sys.state = "STATE_IDLE"
             THEN [sdcard_end_job(s1) EXCEPT !.ret = EndOfFile]
             ELSE [s1 EXCEPT !.ret = EndOfFile]

\* a suspend that leaves the trapping status hook installed
sdcard_suspend_KeepTrap(s, suspend) ==
    LET c == [s EXCEPT !.sys.block_input_stream = ~suspend]
    IN  IF suspend
        THEN [c EXCEPT !.out = Append(@, Ev("reset_read_buffer",
                                            c.stream.reset_read_buffer, "", "", 0)),
                       !.stream.read = c.saved.read]
        ELSE [c EXCEPT !.stream.read = "sdcard_read",
                       !.report.status_message = "trap_status_report"]

sdcard_suspend(s, suspend) ==
    LET c == [s EXCEPT !.sys.block_input_stream = ~suspend]
    IN  IF suspend
        THEN [c EXCEPT !.out = Append(@, Ev("reset_read_buffer",
                                            c.stream.reset_read_buffer, "", "", 0)),
                       !.stream.read = c.saved.read,
                       !.report.status_message = "report_status_message"]
        ELSE [c EXCEPT !.stream.read = "sdcard_read",
                       !.report.status_message = "trap_status_report"]

\* hal.report.status_message(status_code), through the installed hook
status_message(s, status_code) ==
    IF s.report.status_message = "trap_status_report"
    THEN trap_status_report(s, status_code)
    ELSE [s EXCEPT !.out = Append(@, Ev("write", s.stream.write, "status", status_code, 0))]

\* a run that redirects the stream without saving the installed channel set
run_file_NoSave(s, ok) ==
    LET o == file_open(s, ok)
    IN  IF o.opened
        THEN LET c == status_message(o, "Status_OK")
             IN  [c EXCEPT !.stream.type = "StreamSetting_SDCard",
                           !.stream.read = "sdcard_read",
                           !.stream.suspend_read = "sdcard_suspend",
                           !.rt = "sdcard_report",
                           !.report = [status_message |-> "trap_status_report",
                                       feedback_message |-> "trap_feedback_message"],
                           !.sys.block_input_stream = TRUE,
                           !.retval = "Status_OK"]
        ELSE [o EXCEPT !.retval = "Status_SDReadError"]

\* the branch of case '=' taken when the system is idle
run_file(s, ok) ==
    LET o == file_open(s, ok)
    IN  IF o.opened
        THEN LET c == status_message(o, "Status_OK")
             IN  [c EXCEPT !.saved = c.stream,
                           !.stream.type = "StreamSetting_SDCard",
                           !.stream.read = "sdcard_read",
                           !.stream.suspend_read = "sdcard_suspend",
                           !.rt = "sdcard_report",
                           !.report = [status_message |-> "trap_status_report",
                                       feedback_message |-> "trap_feedback_message"],
                           !.sys.block_input_stream = TRUE,
                           !.retval = "Status_OK"]
        ELSE [o EXCEPT !.retval = "Status_SDReadError"]

\* a dispatch that runs the file whatever the system state
sdcard_parse_NoBusyCheck(s, state, ok) == run_file(s, ok)

\* case '=' of sdcard_parse: state is the system state the dispatcher passes
sdcard_parse(s, state, ok) ==
    IF state # "STATE_IDLE"
    THEN [s EXCEPT !.retval = "Status_SystemGClock"]
    ELSE run_file(s, ok)

\* a reset that only ends a job whose file is still open
sdcard_reset_OpenOnly(s) ==
    IF s.file.handle
    THEN sdcard_end_job(
           [s EXCEPT !.out = Append(@, Ev("write", s.stream.write, "MSG",
                                          "Reset during streaming", s.file.line))])
    ELSE s

sdcard_reset(s) ==
    IF s.stream.type = "StreamSetting_SDCard"
    THEN sdcard_end_job(
           [s EXCEPT !.out = Append(@, Ev("write", s.stream.write, "MSG",
                                          "Reset during streaming", s.file.line))])
    ELSE s

\* ------------------------------------------------------------------------
\* Job states of the redirector
\* ------------------------------------------------------------------------

SavedIsConsole == active_stream.type # "StreamSetting_SDCard"

Idle == hal_stream.type # "StreamSetting_SDCard"

Streaming ==
    /\ hal_stream.type = "StreamSetting_SDCard"
    /\ hal_stream.read = "sdcard_read"
    /\ SavedIsConsole

Suspended ==
    /\ hal_stream.type = "StreamSetting_SDCard"
    /\ hal_stream.read # "sdcard_read"
    /\ SavedIsConsole

JobState ==
    IF Idle THEN "Idle"
    ELSE IF Streaming THEN "Streaming"
    ELSE IF Suspended THEN "Suspended"
    ELSE "Overwritten"

\* ------------------------------------------------------------------------
\* Initial state and steps
\* ------------------------------------------------------------------------

\* no call of allowed has been made
NoCall == [filename |-> << >>, is_file |-> FALSE, status |-> "none"]

Boot ==
    /\ hal_stream \in ConsoleSets
    /\ active_stream = NullStream
    /\ hal_report \in ReportHooks
    /\ driver_rt_report = "NULL"
    /\ sys = [state |-> "STATE_IDLE", block_input_stream |-> FALSE]
    /\ file = [handle |-> FALSE, size |-> 0, pos |-> 0, line |-> 0, eol |-> 0]
    /\ sdfile \in Files
    /\ fs_open = 0
    /\ out = <<>>
    /\ ret = 0
    /\ retval = ""
    /\ last = [op |-> "init", arg |-> ""]
    /\ job = [pre |-> hal_stream, hooks |-> hal_report, nested |-> FALSE,
              toggled |-> FALSE, clean |-> TRUE]

\* no listing has been asked for
NoLs == [card |-> << >>, depth |-> 0, path |-> << >>, out |-> << >>,
         status |-> "none", overrun |-> FALSE]

Init ==
    /\ Boot
    /\ allowed_call = NoCall
    /\ ls_call = NoLs

\* history kept for the job: the channel set and the report hooks installed
\* before it was opened from Idle, whether a further open was accepted while it was active, whether
\* it has been suspended, and whether its file session was left to the reads
\* and every read so far succeeded with the system idle, cycling or holding
Track(toggled, clean) ==
    [pre |-> job.pre, hooks |-> job.hooks, nested |-> job.nested,
     toggled |-> toggled, clean |-> clean]

\* the dispatcher hands "$F=<filename>" to sdcard_parse
OpenAndRun ==
    \E ok \in BOOLEAN :
        /\ Apply(sdcard_parse(Cur, sys.state, ok))
        /\ last' = [op |-> "open", arg |-> IF ok THEN "FR_OK" ELSE "FR_NO_FILE"]
        /\ job' = IF retval' = "Status_OK"
                  THEN [pre |-> IF Idle THEN hal_stream ELSE job.pre,
                        hooks |-> IF Idle THEN hal_report ELSE job.hooks,
                        nested |-> ~Idle, toggled |-> FALSE,
                        clean |-> TRUE]
                  ELSE Track(job.toggled, job.clean /\ retval' = "Status_SystemGClock")
        /\ UNCHANGED fnVars

\* the main loop asks the installed read function for a character; ok is the
\* outcome of f_read, which can fail while bytes remain to be read
ReadRequest ==
    \E ok \in BOOLEAN :
        /\ hal_stream.read = "sdcard_read"
        /\ file.line < MaxLine
        /\ ok \/ (file.handle /\ ReadAllowed(sys.state) /\ file.pos < file.size)
        /\ Apply(sdcard_read(Cur, ok))
        /\ last' = [op |-> "read", arg |-> IF ok THEN "FR_OK" ELSE "FR_DISK_ERR"]
        /\ job' = Track(job.toggled, job.clean /\ ok /\ ReadAllowed(sys.state))
        /\ UNCHANGED fnVars

\* the interpreter reports the status of a line through the installed hook
StatusReport ==
    \E code \in StatusCodes :
        /\ hal_report.status_message = "trap_status_report"
        /\ Apply(trap_status_report(Cur, code))
        /\ last' = [op |-> "status", arg |-> code]
        /\ job' = Track(job.toggled, job.clean)
        /\ UNCHANGED fnVars

FeedbackMessage ==
    \E msg \in MessageCodes :
        /\ hal_report.feedback_message = "trap_feedback_message"
        /\ Apply(trap_feedback_message(Cur, msg))
        /\ last' = [op |-> "feedback", arg |-> msg]
        /\ job' = Track(job.toggled, job.clean)
        /\ UNCHANGED fnVars

\* the core asks the installed suspend function to suspend or resume reading
SuspendRead ==
    \E suspend \in BOOLEAN :
        /\ hal_stream.suspend_read = "sdcard_suspend"
        /\ Apply(sdcard_suspend(Cur, suspend))
        /\ last' = [op |-> IF suspend THEN "suspend" ELSE "resume", arg |-> ""]
        /\ job' = Track(job.toggled \/ (suspend /\ Streaming), job.clean)
        /\ UNCHANGED fnVars

Reset ==
    /\ Apply(sdcard_reset(Cur))
    /\ last' = [op |-> "reset", arg |-> ""]
    /\ job' = Track(job.toggled, job.clean)
    /\ UNCHANGED fnVars

\* the core changes sys.state
SetState ==
    \E st \in SysStates :
        /\ st # sys.state
        /\ hal_stream' = hal_stream /\ active_stream' = active_stream
        /\ hal_report' = hal_report /\ driver_rt_report' = driver_rt_report
        /\ sys' = [sys EXCEPT !.state = st]
        /\ file' = file /\ sdfile' = sdfile /\ fs_open' = fs_open
        /\ out' = <<>> /\ ret' = 0 /\ retval' = ""
        /\ last' = [op |-> "state", arg |-> st]
        /\ job' = Track(job.toggled, job.clean)
        /\ UNCHANGED fnVars

Next ==
    \/ OpenAndRun
    \/ ReadRequest
    \/ StatusReport
    \/ FeedbackMessage
    \/ SuspendRead
    \/ Reset
    \/ SetState

Spec == Init /\ [][Next]_vars

\* the main loop polls the installed read function for as long as the job
\* lasts, and the core resumes every read it has suspended
Resume == SuspendRead /\ last'.op = "resume"

SpecLive ==
    /\ Init /\ [][Next]_vars
    /\ SF_vars(ReadRequest)
    /\ WF_vars(Resume)

\* ------------------------------------------------------------------------
\* The file name filter, called on its own
\* ------------------------------------------------------------------------

\* the firmware as it is after start up, with a serial console and an empty
\* program file on the card
Started ==
    /\ Boot
    /\ hal_stream.type = "StreamSetting_Serial"
    /\ hal_report.status_message = "report_status_message"
    /\ sdfile = << >>

InitAllowed ==
    /\ Started
    /\ allowed_call \in [filename : Names, is_file : BOOLEAN, status : {"none"}]
    /\ ls_call = NoLs

\* scan_dir asks allowed about the name of a directory entry
CallAllowed ==
    /\ allowed_call.status = "none"
    /\ allowed_call' = [allowed_call EXCEPT
                           !.status = allowed(allowed_call.filename,
                                              allowed_call.is_file)]
    /\ UNCHANGED <<jobVars, ls_call>>

NextAllowed == CallAllowed

SpecAllowed == InitAllowed /\ [][NextAllowed]_vars

\* ------------------------------------------------------------------------
\* The directory listing, called on its own
\* ------------------------------------------------------------------------

InitLs ==
    /\ Started
    /\ allowed_call = NoCall
    /\ ls_call \in [card : Cards, depth : Depths, path : {<< >>},
                     out : {<< >>}, status : {"none"}, overrun : {FALSE}]

\* what the caller can see of a listing: its result, or, after a write past
\* the end of the path buffer, whatever the corrupted frame of sdcard_ls
\* leads to
Outcomes(r) ==
    IF r.overrun THEN {"Status_OK", "Status_SDFailedOpenDir", "crash"}
    ELSE {r.res}

\* the dispatcher hands "$F" to sdcard_parse, which lists the card
ListCard ==
    /\ ls_call.status = "none"
    /\ LET r == sdcard_ls(ls_call.card, ls_call.depth)
       IN  \E res \in Outcomes(r) :
               ls_call' = [ls_call EXCEPT !.path = r.path, !.out = r.out,
                                          !.status = res,
                                          !.overrun = r.overrun]
    /\ UNCHANGED <<jobVars, allowed_call>>

NextLs == ListCard

SpecLs == InitLs /\ [][NextLs]_vars

TypeOK ==
    /\ file.handle \in BOOLEAN
    /\ file.pos \in 0..MaxLen
    /\ file.pos <= file.size
    /\ file.line \in 0..MaxLine
    /\ fs_open \in 0..1
    /\ file.handle <=> (fs_open = 1)

\* ------------------------------------------------------------------------
\* Properties
\* ------------------------------------------------------------------------

\* the last step ran sdcard_end_job
EndedJob ==
    /\ last.op \in {"read", "status", "feedback", "reset"}
    /\ \E i \in 1..Len(out) : out[i].call = "reset_read_buffer"

\* C1: when a job that was opened from Idle ends, by a read at end of file
\* while idle, a non-success status, the program-end message or a reset, and
\* whatever suspend/resume toggles it went through, the installed channel set
\* (read, reset_read_buffer, suspend_read, type) is again the Console set
\* that was installed immediately before the open; this holds for every
\* open -> end-of-job cycle.
C1_RoundTrip ==
    (EndedJob /\ ~job.nested) =>
        /\ hal_stream = job.pre
        /\ hal_stream \in ConsoleSets

\* a job opened from Idle was suspended and resumed, then ended by the read
\* that finds the handle closed while the system is idle
C1_Witness ==
    /\ EndedJob /\ ~job.nested /\ job.toggled
    /\ last.op = "read"
    /\ hal_stream = job.pre

\* C2: an open-and-run command accepted while a job is active leaves exactly
\* one file handle open and the saved channel set still the Console set that
\* was installed before the job, so that the next end of job installs a
\* Console channel set.
C2_NestedOpenKeepsConsole ==
    (last.op = "open" /\ retval = "Status_OK" /\ job.nested) =>
        /\ file.handle /\ fs_open = 1
        /\ active_stream = job.pre
        /\ active_stream \in ConsoleSets

\* the step is a call of one of the trapping hooks that has to end the job
TrapEnds ==
    \/ last'.op = "status" /\ last'.arg # "Status_OK"
    \/ last'.op = "feedback" /\ last'.arg = "Message_ProgramEnd"

\* what every end of job does: the channel set is restored from the saved
\* set, the block flag is cleared and the handle is closed
JobEnded ==
    /\ hal_stream' = active_stream
    /\ active_stream' = active_stream
    /\ ~sys'.block_input_stream
    /\ ~file'.handle /\ fs_open' = 0

\* C3: a non-success status seen by the trapping status hook, or the
\* program-end message seen by the trapping feedback hook, ends the job in
\* that step; on the status path the error report with the status code and
\* the current line number is written before the restore. A success status
\* or another feedback message changes none of that state.
C3_TrapEndsJob ==
    [][ (last'.op \in {"status", "feedback"}) =>
          IF TrapEnds
          THEN /\ JobEnded
               /\ (last'.op = "status") =>
                     /\ Len(out') >= 2
                     /\ out'[1] = Ev("write", hal_stream.write, "error",
                                     last'.arg, file.line)
                     /\ \A i \in 2..Len(out') : out'[i].call # "write"
                     /\ out'[Len(out')].call = "reset_read_buffer"
          ELSE UNCHANGED progVars ]_vars

\* a job opened from Idle was ended by a non-success status while its file
\* was still open: the report came first, then the close and the restore
C3_Witness ==
    /\ last.op = "status" /\ last.arg = "Status_BadNumberFormat"
    /\ EndedJob /\ ~job.nested
    /\ Len(out) = 3 /\ out[1].text = "error" /\ out[2].call = "f_close"
    /\ Idle /\ ~file.handle /\ ~sys.block_input_stream

\* a line terminator byte
IsTerm(c) == c = CR \/ c = LF

\* the number of lines of f that end at or before offset p: every terminator
\* ends a line, except the LF of a CR LF pair
LineIndex(f, p) ==
    Cardinality({i \in 1..p : IsTerm(f[i]) /\ ~(i > 1 /\ f[i] = LF /\ f[i-1] = CR)})

\* every CR of f is followed by LF
NoLoneCR(f) == \A i \in 1..Len(f) : f[i] = CR => (i < Len(f) /\ f[i+1] = LF)

\* every line of f is ended by LF or CR LF
ProperlyTerminated(f) == Len(f) > 0 /\ f[Len(f)] = LF /\ NoLoneCR(f)

\* every line of f but the last is ended by LF or CR LF, the last by nothing
LastUnterminated(f) == Len(f) > 0 /\ ~IsTerm(f[Len(f)]) /\ NoLoneCR(f)

\* C4: when a non-success status is reported for the k-th line of the file,
\* right after the read that returned the terminator byte of that line and
\* before the next read, the error report carries line number k.
C4_ErrorReportsLineK ==
    [][ ( /\ last'.op = "status" /\ last'.arg # "Status_OK"
          /\ last.op = "read" /\ IsTerm(ret)
          /\ Streaming /\ file.handle /\ job.clean
          /\ file.pos >= 2 /\ ~IsTerm(sdfile[file.pos - 1]) )
        => /\ Len(out') >= 1
           /\ out'[1].text = "error"
           /\ out'[1].line = LineIndex(sdfile, file.pos) ]_vars

C7_BusyRejected ==
    [][ (last'.op = "open" /\ sys.state # "STATE_IDLE") =>
          /\ retval' = "Status_SystemGClock"
          /\ out' = <<>>
          /\ UNCHANGED progVars ]_vars

\* the command was rejected in mid-cycle with no job and no file open
C7_Witness ==
    /\ last.op = "open" /\ retval = "Status_SystemGClock"
    /\ sys.state = "STATE_CYCLE"
    /\ Idle /\ ~file.handle /\ fs_open = 0

\* C8: an open-and-run command issued from Idle whose storage open fails
\* returns the read-error status and starts no job: no handle is held and the
\* channel set, the hooks and the block flag are as before.
C8_OpenFailureStartsNoJob ==
    [][ ( /\ last'.op = "open" /\ last'.arg = "FR_NO_FILE"
          /\ sys.state = "STATE_IDLE" /\ Idle )
        => /\ retval' = "Status_SDReadError"
           /\ ~file'.handle /\ fs_open' = 0
           /\ out' = <<>>
           /\ UNCHANGED progVars ]_vars

\* the open failed with the system idle and no job active
C8_Witness ==
    /\ last.op = "open" /\ last.arg = "FR_NO_FILE" /\ retval = "Status_SDReadError"
    /\ Idle /\ ~file.handle /\ fs_open = 0
    /\ hal_stream \in ConsoleSets

\* the job was opened from Idle, every byte of the file was read with the
\* system idle, cycling or holding, and the read that found the handle closed
\* has just ended the job
StreamedToEnd ==
    /\ EndedJob /\ last.op = "read"
    /\ ~job.nested /\ job.clean
    /\ file.pos = file.size

\* C9: after a file of N properly terminated lines (LF or CR LF, empty lines
\* allowed) was streamed to its end, file.line is N when the job ends.
C9_LineCountTerminated ==
    (StreamedToEnd /\ ProperlyTerminated(sdfile)) =>
        file.line = LineIndex(sdfile, Len(sdfile))

\* C10: after a file of N lines whose last line has no terminator was
\* streamed to its end, file.line is N when the job ends.
C10_LineCountUnterminated ==
    (StreamedToEnd /\ LastUnterminated(sdfile)) =>
        file.line = LineIndex(sdfile, Len(sdfile)) + 1

\* the saved channel set holds a copy of a channel set
Populated == active_stream # NullStream

C13_HooksRestored ==
    (EndedJob /\ ~job.nested) => hal_report = job.hooks

\* the number of terminator runs among the first p bytes of f: maximal
\* sequences of consecutive CR and LF bytes
RunsRead(f, p) ==
    Cardinality({i \in 1..p : IsTerm(f[i]) /\ (i = 1 \/ ~IsTerm(f[i-1]))})

\* C16: in every reachable state file.line is at most the number of
\* terminator runs read so far from the file, whatever the interleaving of
\* reads, state changes and closes.
C16_LineAtMostRuns ==
    file.line <= RunsRead(sdfile, file.pos)

\* C17: when the read that reaches the end of the file closes the handle, it
\* returns the synthesized line feed exactly when the last byte read was not
\* a terminator; after a file whose last byte is a terminator it delivers no
\* extra byte.
C17_SynthesizedOnlyMidLine ==
    [][ ( /\ last'.op = "read" /\ last'.arg = "FR_OK"
          /\ file.handle /\ ~file'.handle
          /\ ReadAllowed(sys.state)
          /\ file.pos = file.size /\ file.pos > 0 )
        => (ret' = LF <=> ~IsTerm(sdfile[file.pos])) ]_vars

\* C19: in every reachable state sys.block_input_stream is set exactly when
\* the installed read function is sdcard_read.
C19_BlockIffFileRead ==
    sys.block_input_stream <=> (hal_stream.read = "sdcard_read")

\* C18: once a job has been started, if reads keep being issued, every
\* suspension is resumed and the system eventually stays idle, then the
\* installed kind eventually becomes a console kind again, whatever happened
\* in between, a further accepted open included (open-and-run commands being
\* issued finitely often).
C18_EventuallyConsole ==
    ( /\ <>[](sys.state = "STATE_IDLE")
      /\ <>[][last'.op # "open"]_vars
      /\ [](file.line < MaxLine) )
        => [](~Idle => <>Idle)

\* the extensions of program files
ProgramExtensions ==
    { <<110, 99>>, <<103, 99, 111, 100, 101>>, <<116, 120, 116>>,
      <<116, 101, 120, 116>>, <<116, 97, 112>>, <<110, 103, 99>> }

\* a and the lower case word b are equal when case is ignored
SameIgnoringCase(a, b) ==
    /\ Len(a) = Len(b)
    /\ \A i \in 1..Len(a) : a[i] = b[i] \/ a[i] = b[i] - 32

\* name has an extension, the text after its last '.', that is a program
\* extension when case is ignored
HasProgramExtension(name) ==
    \E d \in 1..Len(name) :
        /\ name[d] = 46
        /\ \A j \in (d+1)..Len(name) : name[j] # 46
        /\ \E e \in ProgramExtensions :
               SameIgnoringCase(SubSeq(name, d + 1, Len(name)), e)

\* name holds a space or a real time command character
HasUnusableChar(name) ==
    \E i \in 1..Len(name) :
        name[i] \in {32, CMD_STATUS_REPORT, CMD_CYCLE_START, CMD_FEED_HOLD}

\* the admissibility of a directory entry as the specification states it
Admissibility(name, is_file) ==
    IF is_file /\ ~HasProgramExtension(name) THEN "Filename_Filtered"
    ELSE IF HasUnusableChar(name) THEN "Filename_Invalid"
    ELSE "Filename_Valid"

\* C14: allowed(name, is_file) is the admissibility of the entry: a regular
\* file whose extension, compared without regard to case, is not nc, gcode,
\* txt, text, tap or ngc is Filtered; any other entry is Invalid if its name
\* holds a space or the status-report, cycle-start or feed-hold character and
\* Valid if not; a directory is never Filtered.
C14_AllowedIsAdmissibility ==
    allowed_call.status # "none" =>
        /\ allowed_call.status =
               Admissibility(allowed_call.filename, allowed_call.is_file)
        /\ ~allowed_call.is_file => allowed_call.status # "Filename_Filtered"

\* allowed has classified the file 'bad name.nc', whose extension is a
\* program extension and whose name holds a space
C14_Witness ==
    /\ allowed_call.filename = <<98, 97, 100, 32, 110, 97, 109, 101, 46, 110, 99>>
    /\ allowed_call.is_file
    /\ allowed_call.status = "Filename_Invalid"

\* the files a scan with a budget of one per directory level enumerates: the
\* listed files of dir, which is at place at, and, while the budget lasts,
\* those of its valid subdirectories
RECURSIVE FilesWithin(_, _, _)
FilesWithin(dir, at, budget) ==
    { <<at, dir[i].fname>> : i \in {j \in 1..Len(dir) :
          ~dir[j].dir /\ allowed(dir[j].fname, TRUE) # "Filename_Filtered"} }
    \cup
    UNION { IF budget - 1 > 0
            THEN FilesWithin(dir[i].sub, Append(at, dir[i].fname), budget - 1)
            ELSE {} : i \in {j \in 1..Len(dir) :
                dir[j].dir /\ allowed(dir[j].fname, FALSE) = "Filename_Valid"} }

\* the files the listing has enumerated, each with the directory it was read
\* from
Enumerated == { <<ls_call.out[i].at, ls_call.out[i].fname>> :
                    i \in 1..Len(ls_call.out) }

\* C15: the depth budget is spent per directory level: with budget D the
\* listing descends into every valid subdirectory at a level below D however
\* many sibling subdirectories were scanned before it, a budget that reaches
\* zero only stops the descent while the remaining entries of the directory
\* are still enumerated, and the listing returns success.
C15_BudgetPerLevel ==
    ls_call.status # "none" =>
        /\ ls_call.status = "Status_OK"
        /\ Enumerated = FilesWithin(ls_call.card, << >>, ls_call.depth)

\* C20: every FILE record carries the path of the directory its file is in;
\* a file listed after a sibling subdirectory was scanned is reported under
\* the path of its parent directory.
C20_RecordCarriesTruePath ==
    \A i \in 1..Len(ls_call.out) : ls_call.out[i].path = ls_call.out[i].at

\* C21: for every card and every name length the string in the path buffer
\* never has more than MAX_PATHLEN - 1 characters, so that the string and
\* its terminator fit the buffer of MAX_PATHLEN bytes: the length test made
\* before '/' and the name are appended rejects every append that would not
\* fit.
C21_PathFitsBuffer ==
    /\ strlen_path(ls_call.path) <= MAX_PATHLEN - 1
    /\ ~ls_call.overrun

=============================================================================
